---- MODULE Spec2Model ----
(***************************************************************************)
(* Model of parse_log_file (src/app.py): the log run extractor.            *)
(*                                                                         *)
(* A text is a flat sequence of atoms: text fragments that the patterns    *)
(* of parse_log_file never split, plus the newline atom NL.  The lexical   *)
(* tables (Kind, Fields, KW, KWU) record, for each fragment, the facts the *)
(* regular expressions and substring tests of the code read off it.  No    *)
(* keyword of the code spans two atoms of the vocabulary.                  *)
(***************************************************************************)
EXTENDS Integers, Sequences, FiniteSets, TLC

\* ------------------------------------------------------------------------
\* Bounds
\* ------------------------------------------------------------------------
MaxLines == 3

MaxBulk == 50

\* ------------------------------------------------------------------------
\* Lexical layer: the fragments log lines are made of
\* ------------------------------------------------------------------------
NL == "\n"

T00 == "2024-01-01 10:00:00"

T01 == "2024-01-01 10:00:01"

T03 == "2024-01-01 10:00:03"

T07 == "2024-01-01 10:00:07"

T09 == "2024-01-01 10:00:09"

TBAD == "2024-13-45 10:00:07"

FRAC == ",123"

INFO == " [INFO] "

BSTART == "[TEST START] "

BPASSED == "[TEST PASSED] "

BFAILED == "[TEST FAILED] "

CSI == " completed successfully in "

CKPT == "TEST CHECKPOINT: "

CKFAILED == "TEST FAILED: "

DASH == " - "

STEP1 == "Step 1: "

\* Which pattern element a fragment is: "ts" is \d{4}-\d{2}-\d{2} \d{2}:\d{2}:\d{2},
\* "frac" is ,\d+  and "secs" is [\d.]+s ; "text" is anything else.
Kind(a) ==
  CASE a \in {T00, T01, T03, T07, T09, TBAD} -> "ts"
    [] a = FRAC -> "frac"
    [] a = INFO -> "info"
    [] a = BSTART -> "start"
    [] a = BPASSED -> "passed"
    [] a = BFAILED -> "failed"
    [] a = CSI -> "csi"
    [] a \in {"3.50s", "1.2.3s"} -> "secs"
    [] a = CKPT -> "ckpt"
    [] a = CKFAILED -> "ckres"
    [] a = DASH -> "dash"
    [] a = STEP1 -> "step"
    [] a = NL -> "nl"
    [] OTHER -> "text"

\* The digit groups of a numeric fragment, as numbers.
Fields(a) ==
  CASE a = T00 -> <<2024, 1, 1, 10, 0, 0>>
    [] a = T01 -> <<2024, 1, 1, 10, 0, 1>>
    [] a = T03 -> <<2024, 1, 1, 10, 0, 3>>
    [] a = T07 -> <<2024, 1, 1, 10, 0, 7>>
    [] a = T09 -> <<2024, 1, 1, 10, 0, 9>>
    [] a = TBAD -> <<2024, 13, 45, 10, 0, 7>>
    [] a = "3.50s" -> <<3, 50>>
    [] a = "1.2.3s" -> <<1, 2, 3>>
    [] a = STEP1 -> <<1>>
    [] OTHER -> <<>>

\* The keywords of the checkpoint and timeline scans that occur in a fragment
\* (case-sensitive substring tests).
KW(a) ==
  CASE a = BPASSED -> {"TEST PASSED", "PASSED"}
    [] a = BFAILED -> {"TEST FAILED", "FAILED"}
    [] a = CKPT -> {"TEST CHECKPOINT"}
    [] a = CKFAILED -> {"TEST FAILED", "FAILED"}
    [] a \in {"PASSED", "PASSED gate", " Login PASSED"} -> {"PASSED"}
    [] a = "PARTIALLY PASSED" -> {"PARTIALLY", "PARTIAL", "PASSED"}
    [] a = CSI -> {"completed successfully in"}
    [] OTHER -> {}

\* The suite-marker tokens that occur in the upper-cased fragment.
KWU(a) ==
  CASE a = "Starting Test Suite" -> {"STARTING", "TEST", "SUITE"}
    [] a \in {BSTART, BPASSED, BFAILED, CKPT, CKFAILED} -> {"TEST"}
    [] a \in {"LoginTest", "SignupTest"} -> {"TEST"}
    [] OTHER -> {}

\* str.strip('.').strip() on a step description.
Strip(s) ==
  CASE s = "Connect to App." -> "Connect to App"
    [] OTHER -> s

RECURSIVE Text(_)
\* The string a sequence of fragments spells.
Text(as) == IF as = <<>> THEN "" ELSE Head(as) \o Text(Tail(as))

\* `kw in line`
In(kw, line) == \E i \in 1..Len(line) : kw \in KW(line[i])

\* `kw in line.upper()`
InUpper(kw, line) == \E i \in 1..Len(line) : kw \in KWU(line[i])

Min(S) == CHOOSE x \in S : \A y \in S : x <= y

\* ------------------------------------------------------------------------
\* str.split('\n') and '\n'.join
\* ------------------------------------------------------------------------
RECURSIVE Split(_)
Split(c) ==
  IF \A i \in 1..Len(c) : c[i] # NL THEN <<c>>
  ELSE LET k == Min({i \in 1..Len(c) : c[i] = NL})
       IN <<SubSeq(c, 1, k - 1)>> \o Split(SubSeq(c, k + 1, Len(c)))

RECURSIVE Join(_)
Join(ls) ==
  IF ls = <<>> THEN <<>>
  ELSE IF Len(ls) = 1 THEN ls[1]
  ELSE ls[1] \o <<NL>> \o Join(Tail(ls))

\* ------------------------------------------------------------------------
\* datetime.strptime(ts, '%Y-%m-%d %H:%M:%S') and timedelta.total_seconds()
\* ------------------------------------------------------------------------
IsLeap(y) == (y % 4 = 0 /\ y % 100 # 0) \/ y % 400 = 0

DaysInMonth(y, m) ==
  CASE m \in {1, 3, 5, 7, 8, 10, 12} -> 31
    [] m \in {4, 6, 9, 11} -> 30
    [] OTHER -> IF IsLeap(y) THEN 29 ELSE 28

RECURSIVE DaysBeforeMonth(_, _)
DaysBeforeMonth(y, m) ==
  IF m = 1 THEN 0 ELSE DaysBeforeMonth(y, m - 1) + DaysInMonth(y, m - 1)

\* Days from 2000-01-01 to the first day of year y (y >= 2000).
DaysBeforeYear(y) ==
  LET n == y - 2000
  IN 365 * n + (IF n = 0 THEN 0 ELSE (n - 1) \div 4 - (n - 1) \div 100 + (n - 1) \div 400 + 1)

\* strptime: a datetime (seconds since 2000-01-01 00:00:00) or ValueError.
Strptime(ts) ==
  LET f == Fields(ts)
      valid == /\ f[1] >= 2000
               /\ f[2] \in 1..12
               /\ f[3] >= 1
               /\ f[3] <= DaysInMonth(f[1], IF f[2] \in 1..12 THEN f[2] ELSE 1)
               /\ f[4] <= 23
               /\ f[5] <= 59
               /\ f[6] <= 59
  IN IF valid
     THEN [ok |-> TRUE,
           secs |-> ((DaysBeforeYear(f[1]) + DaysBeforeMonth(f[1], f[2]) + f[3] - 1) * 24
                       + f[4]) * 3600 + f[5] * 60 + f[6]]
     ELSE [ok |-> FALSE, secs |-> 0]

Pad2(n) == IF n < 10 THEN "0" \o ToString(n) ELSE ToString(n)

\* timestamp.split(' ')[1].split(',')[0]: the HH:MM:SS part of the text.
ClockOf(ts) ==
  LET f == Fields(ts) IN Pad2(f[4]) \o ":" \o Pad2(f[5]) \o ":" \o Pad2(f[6])

\* f'{duration:.1f}s' of a whole number of seconds
Format1(d) == ToString(d) \o ".0s"

\* f'{int(duration_seconds)}s'
FormatInt(d) == ToString(d) \o "s"

\* float(group) of a [\d.]+ group: hundredths, or ValueError when the group
\* holds more than one dot.
Float(a) ==
  LET f == Fields(a)
  IN IF Len(f) = 2 THEN [ok |-> TRUE, hundredths |-> 100 * f[1] + f[2]]
     ELSE [ok |-> FALSE, hundredths |-> 0]

\* f'{duration:.2f}s'
Format2(h) == ToString(h \div 100) \o "." \o Pad2(h % 100) \o "s"

\* ------------------------------------------------------------------------
\* IEEE-754 double arithmetic of  int(passed / total_tests * 100)
\* A double is a 53-bit significand m (most significant bit first) and an
\* exponent e: the value m * 2^e; zero is the empty significand.
\* ------------------------------------------------------------------------
Precision == 53

\* Significands are handled in three limbs of 18 bits, so that no intermediate
\* value passes 2^31.
LimbBase == 2 ^ 18

\* The w-bit binary numeral of n (0 <= n < 2^w), most significant bit first.
Bits(n, w) == [k \in 1..w |-> (n \div (2 ^ (w - k))) % 2]

BitLen(n) == CHOOSE k \in 0..30 : n < 2 ^ k /\ (k = 0 \/ n >= 2 ^ (k - 1))

\* The binary numeral of n without leading zeros (<<>> for 0).
IntBits(n) == Bits(n, BitLen(n))

RECURSIVE BitsToInt(_)
\* The number a numeral of at most 30 bits denotes.
BitsToInt(b) ==
  IF b = <<>> THEN 0 ELSE 2 * BitsToInt(SubSeq(b, 1, Len(b) - 1)) + b[Len(b)]

\* The limbs <<hi, mid, lo>> of a numeral of 37..66 bits.
Limbs(b) ==
  << BitsToInt(SubSeq(b, 1, Len(b) - 36)),
     BitsToInt(SubSeq(b, Len(b) - 35, Len(b) - 18)),
     BitsToInt(SubSeq(b, Len(b) - 17, Len(b))) >>

\* The numeral of hi * 2^36 + mid * 2^18 + lo, hi written on at least w bits.
Numeral(hi, mid, lo, w) ==
  Bits(hi, IF BitLen(hi) > w THEN BitLen(hi) ELSE w) \o Bits(mid, 18) \o Bits(lo, 18)

\* b * c + carry as a numeral, for small c and carry (limb by limb).
MulCarry(b, c, carry) ==
  LET l == Limbs(b)
      lo == l[3] * c + carry
      mid == l[2] * c + lo \div LimbBase
      hi == l[1] * c + mid \div LimbBase
  IN Numeral(hi, mid % LimbBase, lo % LimbBase, Len(b) - 36)

\* The numeral b + 1 (one bit longer when b is all ones).
Inc(b) == MulCarry(b, 1, 1)

RECURSIVE Pow2Mod(_, _)
\* 2^k mod t
Pow2Mod(k, t) ==
  IF k = 0 THEN 1 % t
  ELSE IF k % 2 = 1 THEN (2 * Pow2Mod(k - 1, t)) % t
  ELSE (Pow2Mod(k \div 2, t) * Pow2Mod(k \div 2, t)) % t

\* The remainder left after n binary digits of r/t after the point (0 <= r < t).
RemAfter(r, t, n) == (r * Pow2Mod(n, t)) % t

\* The first n binary digits of r/t after the point.
FracBits(r, t, n) == [k \in 1..n |-> (2 * RemAfter(r, t, k - 1)) \div t]

RECURSIVE LeadZeros(_, _)
\* The number of zero digits of r/t before its first one (0 < r < t).
LeadZeros(r, t) == IF 2 * r >= t THEN 0 ELSE 1 + LeadZeros(2 * r, t)

\* Round to nearest, ties to even: m is the kept significand, up says the
\* dropped part calls for the next significand.
RoundUp(m, e, up) ==
  IF ~up THEN [m |-> m, e |-> e]
  ELSE LET n == Inc(m)
       IN IF Len(n) > Precision
          THEN [m |-> SubSeq(n, 1, Precision), e |-> e + 1]
          ELSE [m |-> n, e |-> e]

\* p / t for integers p >= 0, t > 0: the correctly rounded quotient.
FloatDiv(p, t) ==
  IF p = 0 THEN [m |-> <<>>, e |-> 0]
  ELSE LET ib == IntBits(p \div t)
           r == p % t
           z == IF ib = <<>> THEN LeadZeros(r, t) ELSE 0
           n == z + Precision - Len(ib)
           m == SubSeq(ib \o FracBits(r, t, n), z + 1, z + Precision)
           rem == RemAfter(r, t, n)
           up == 2 * rem > t \/ (2 * rem = t /\ m[Precision] = 1)
       IN RoundUp(m, 0 - n, up)

\* d * c for a double d and a small integer c > 0: the correctly rounded product.
FloatMulInt(d, c) ==
  IF d.m = <<>> THEN d
  ELSE LET prod == MulCarry(d.m, c, 0)
           drop == Len(prod) - Precision
           m == SubSeq(prod, 1, Precision)
           guard == drop > 0 /\ prod[Precision + 1] = 1
           sticky == \E k \in (Precision + 2)..Len(prod) : prod[k] = 1
           up == guard /\ (sticky \/ m[Precision] = 1)
       IN RoundUp(m, d.e + drop, up)

\* int(d) for a double 0 <= d < 2^30: truncation.
FloatToInt(d) ==
  IF d.m = <<>> \/ Precision + d.e <= 0 THEN 0
  ELSE BitsToInt(SubSeq(d.m, 1, Precision + d.e))

\* success_rate = int((passed / total_tests * 100)) if total_tests > 0 else 0
SuccessRate(passed, total) ==
  IF total > 0 THEN FloatToInt(FloatMulInt(FloatDiv(passed, total), 100)) ELSE 0

\* ------------------------------------------------------------------------
\* The patterns of the scans
\* ------------------------------------------------------------------------
NoMatch == [ok |-> FALSE]

\* 'STARTING' in line_upper and 'TEST' in line_upper and 'SUITE' in line_upper
IsSuiteStart(line) ==
  InUpper("STARTING", line) /\ InUpper("TEST", line) /\ InUpper("SUITE", line)

\* re.search(r'TEST (CHECKPOINT|PASSED|FAILED)', line)
IsCandidate(line) ==
  In("TEST CHECKPOINT", line) \/ In("TEST PASSED", line) \/ In("TEST FAILED", line)

\* Mutant of Classify: the FAILED test comes first.
ClassifyFailedFirst(line) ==
  IF In("FAILED", line) THEN "failed"
  ELSE IF In("PASSED", line) /\ ~In("PARTIALLY", line) /\ ~In("PARTIAL", line) THEN "passed"
  ELSE IF In("PARTIALLY", line) \/ In("PARTIAL", line) THEN "partial"
  ELSE "none"

\* The if / elif / elif / else of the checkpoint scan; "none" is the `continue`.
Classify(line) ==
  IF In("PASSED", line) /\ ~In("PARTIALLY", line) /\ ~In("PARTIAL", line) THEN "passed"
  ELSE IF In("FAILED", line) THEN "failed"
  ELSE IF In("PARTIALLY", line) \/ In("PARTIAL", line) THEN "partial"
  ELSE "none"

\* re.search(r'TEST CHECKPOINT: (.+?) -', line)
CheckpointNameMatch(line) ==
  LET ends(i) == {j \in (i + 2)..Len(line) : Kind(line[j]) = "dash"}
      S == {i \in 1..Len(line) : Kind(line[i]) = "ckpt" /\ ends(i) # {}}
  IN IF S = {} THEN NoMatch
     ELSE LET i == Min(S)
              j == Min(ends(i))
          IN [ok |-> TRUE, name |-> Text(SubSeq(line, i + 1, j - 1))]

\* re.search(r'TEST (?:PASSED|FAILED): (.+?)$', line)
ResultNameMatch(line) ==
  LET S == {i \in 1..(Len(line) - 1) : Kind(line[i]) = "ckres"}
  IN IF S = {} THEN NoMatch
     ELSE [ok |-> TRUE, name |-> Text(SubSeq(line, Min(S) + 1, Len(line)))]

\* name_match: the first form, and the second if the first fails.
NameMatch(line) ==
  IF CheckpointNameMatch(line).ok THEN CheckpointNameMatch(line)
  ELSE ResultNameMatch(line)

\* The common head  (\d{4}-\d{2}-\d{2} \d{2}:\d{2}:\d{2}),\d+ \[INFO\] <marker>
\* of the timeline patterns at position i, followed by at least one fragment.
HeadAt(line, i, kinds) ==
  /\ i + 4 <= Len(line)
  /\ Kind(line[i]) = "ts"
  /\ Kind(line[i + 1]) = "frac"
  /\ Kind(line[i + 2]) = "info"
  /\ Kind(line[i + 3]) \in kinds

\* test_start_pattern.search(line)
StartMatch(line) ==
  LET S == {i \in 1..Len(line) : HeadAt(line, i, {"start"})}
  IN IF S = {} THEN NoMatch
     ELSE LET i == Min(S)
          IN [ok |-> TRUE, ts |-> line[i],
              name |-> Text(SubSeq(line, i + 4, Len(line)))]

\* test_end_pattern.search(line)
EndMatch(line) ==
  LET ends(i) == {j \in (i + 5)..(Len(line) - 1) :
                    Kind(line[j]) = "csi" /\ Kind(line[j + 1]) = "secs"}
      S == {i \in 1..Len(line) : HeadAt(line, i, {"passed", "failed"}) /\ ends(i) # {}}
  IN IF S = {} THEN NoMatch
     ELSE LET i == Min(S)
              j == Min(ends(i))
          IN [ok |-> TRUE, ts |-> line[i], word |-> Kind(line[i + 3]),
              name |-> Text(SubSeq(line, i + 4, j - 1)), secs |-> line[j + 1]]

\* test_end_simple_pattern.search(line)
EndSimpleMatch(line) ==
  LET S == {i \in 1..Len(line) : HeadAt(line, i, {"passed", "failed"})}
  IN IF S = {} THEN NoMatch
     ELSE LET i == Min(S)
          IN [ok |-> TRUE, ts |-> line[i], word |-> Kind(line[i + 3]),
              name |-> Text(SubSeq(line, i + 4, Len(line)))]

\* step_inline_pattern.search(line)
StepMatch(line) ==
  LET S == {i \in 1..Len(line) : HeadAt(line, i, {"step"})}
  IN IF S = {} THEN NoMatch
     ELSE LET i == Min(S)
          IN [ok |-> TRUE, ts |-> line[i], num |-> ToString(Fields(line[i + 3])[1]),
              name |-> Text(SubSeq(line, i + 4, Len(line)))]

\* Mutant of TimeMatch: re.search instead of re.match.
TimeSearch(line) ==
  LET S == {k \in 1..Len(line) : Kind(line[k]) = "ts"}
  IN IF S = {} THEN NoMatch ELSE [ok |-> TRUE, ts |-> line[Min(S)]]

\* re.match(r'(\d{4}-\d{2}-\d{2} \d{2}:\d{2}:\d{2})', line)
TimeMatch(line) ==
  IF Len(line) >= 1 /\ Kind(line[1]) = "ts" THEN [ok |-> TRUE, ts |-> line[1]]
  ELSE NoMatch

\* dict[key] = value
Put(d, key, value) == [k \in DOMAIN d \cup {key} |-> IF k = key THEN value ELSE d[k]]

EmptyDict == [k \in {} |-> 0]

\* ------------------------------------------------------------------------
\* Input texts
\* ------------------------------------------------------------------------
SuiteLine == <<T01, FRAC, INFO, "Starting Test Suite">>

StartLine(ts, name) == <<ts, FRAC, INFO, BSTART, name>>

EndLine(ts, marker, name) == <<ts, FRAC, INFO, marker, name>>

\* The lines of the checkpoint and span styles.
SummaryLines ==
  { <<>>,
    SuiteLine,
    <<CKPT, "Create List", DASH, "PASSED">>,
    <<CKPT, "Create List", DASH, "done">>,
    <<CKPT, "Add Tasks", DASH, "PARTIALLY PASSED">>,
    <<CKFAILED, "Create List">>,
    <<CKFAILED, "PASSED gate">>,
    EndLine(T07, BFAILED, "LoginTest"),
    <<T09, " Login PASSED">>,
    <<TBAD, " heartbeat">>,
    <<"Elapsed since ", T00>>,
    StartLine(TBAD, "LoginTest") }

\* The lines of the timeline styles.
TimelineLines ==
  { <<>>,
    SuiteLine,
    StartLine(T00, "LoginTest"),
    StartLine(T03, "LoginTest"),
    EndLine(T07, BFAILED, "LoginTest"),
    EndLine(T09, BPASSED, "SignupTest"),
    EndLine(T00, BPASSED, "LoginTest") \o <<CSI, "3.50s">>,
    EndLine(TBAD, BFAILED, "LoginTest"),
    StartLine(TBAD, "LoginTest"),
    EndLine(T03, BPASSED, "LoginTest") \o <<CSI, "1.2.3s">>,
    <<T03, FRAC, INFO, STEP1, "Connect to App.">>,
    <<TBAD, FRAC, INFO, STEP1, "Connect to App.">>,
    StartLine(T00, "Setup ") \o EndLine(T03, BPASSED, "LoginTest"),
    EndLine(T07, BPASSED, "LoginTest") \o <<CSI, "progress">>,
    <<TBAD, " heartbeat">> }

\* Every text of 1..n lines over a set of lines (a text of k newlines has
\* k + 1 lines; the empty text is the one empty line).
TextsOver(lineSet, n) ==
  {Join(ls) : ls \in UNION {[1..k -> lineSet] : k \in 1..n}}

RECURSIVE Repeat(_, _)
Repeat(line, n) == IF n = 0 THEN <<>> ELSE <<line>> \o Repeat(line, n - 1)

\* Long runs: p passed checkpoints followed by failed ones, MaxBulk lines.
BulkTexts ==
  {Join(Repeat(<<CKPT, "Create List", DASH, "PASSED">>, p)
          \o Repeat(<<CKFAILED, "Create List">>, MaxBulk - p)) : p \in 0..MaxBulk}

Found(text) == [found |-> TRUE, text |-> text]

NotFound == [found |-> FALSE, text |-> <<>>]

\* ------------------------------------------------------------------------
\* State
\* ------------------------------------------------------------------------
VARIABLES
  store,            \* what get_log_content returns for the requested log
  pc,               \* position in parse_log_file
  content,
  lines,
  last_test_start,
  i,                \* index of the line the current loop is at (1-based)
  checkpoints, passed, failed, partial,
  timeline, test_starts, step_times,
  start_time, end_time,
  result            \* what parse_log_file returned

vars == <<store, pc, content, lines, last_test_start, i, checkpoints, passed,
          failed, partial, timeline, test_starts, step_times, start_time,
          end_time, result>>

Pending == [kind |-> "pending"]

None == [kind |-> "None"]

Locals ==
  /\ pc = "request"
  /\ content = <<>>
  /\ lines = <<>>
  /\ last_test_start = -1
  /\ i = 1
  /\ checkpoints = <<>>
  /\ passed = 0
  /\ failed = 0
  /\ partial = 0
  /\ timeline = <<>>
  /\ test_starts = EmptyDict
  /\ step_times = EmptyDict
  /\ start_time = ""
  /\ end_time = ""
  /\ result = Pending

Init ==
  /\ store \in {NotFound} \cup {Found(t) : t \in TextsOver(SummaryLines, MaxLines)}
  /\ Locals

InitTimeline ==
  /\ store \in {NotFound} \cup {Found(t) : t \in TextsOver(TimelineLines, MaxLines)}
  /\ Locals

InitBulk ==
  /\ store \in {NotFound} \cup {Found(t) : t \in BulkTexts}
  /\ Locals

\* ------------------------------------------------------------------------
\* parse_log_file
\* ------------------------------------------------------------------------
DefaultCheckpoints ==
  << [name |-> "List Creation", status |-> "passed", time |-> "2s"],
     [name |-> "List Rename", status |-> "passed", time |-> "3s"],
     [name |-> "Add Tasks", status |-> "passed", time |-> "6s"],
     [name |-> "Duplicate List", status |-> "partial", time |-> "5s"] >>

DefaultTimeline ==
  << [step |-> "Connect to App", status |-> "passed", time |-> "1.4s", timestamp |-> "14:35:52"],
     [step |-> "Create New List", status |-> "passed", time |-> "1.1s", timestamp |-> "14:35:53"],
     [step |-> "Rename List", status |-> "passed", time |-> "2.9s", timestamp |-> "14:35:56"],
     [step |-> "Add First Task", status |-> "passed", time |-> "2.7s", timestamp |-> "14:35:59"] >>

\* content = get_log_content(log_file); if content is None: return None;
\* lines = content.split('\n')
GetLogContent ==
  /\ pc = "request"
  /\ IF store.found
     THEN /\ content' = store.text
          /\ lines' = Split(store.text)
          /\ pc' = "find_start"
          /\ UNCHANGED result
     ELSE /\ result' = None
          /\ pc' = "done"
          /\ UNCHANGED <<content, lines>>
  /\ UNCHANGED <<store, last_test_start, i, checkpoints, passed, failed, partial,
                 timeline, test_starts, step_times, start_time, end_time>>

\* Mutant of FindLastStart: the first marker wins (a `break` after the first match).
FindFirstStart ==
  /\ pc = "find_start"
  /\ i <= Len(lines)
  /\ last_test_start' =
       IF IsSuiteStart(lines[i]) /\ last_test_start < 0 THEN i - 1 ELSE last_test_start
  /\ i' = i + 1
  /\ UNCHANGED <<store, pc, content, lines, checkpoints, passed, failed, partial,
                 timeline, test_starts, step_times, start_time, end_time, result>>

\* One iteration of: for i, line in enumerate(lines): ... last_test_start = i
\* (last_test_start is the 0-based index of the code).
FindLastStart ==
  /\ pc = "find_start"
  /\ i <= Len(lines)
  /\ last_test_start' = IF IsSuiteStart(lines[i]) THEN i - 1 ELSE last_test_start
  /\ i' = i + 1
  /\ UNCHANGED <<store, pc, content, lines, checkpoints, passed, failed, partial,
                 timeline, test_starts, step_times, start_time, end_time, result>>

\* lines[last_test_start:]
LastRun(ls, last) == IF last >= 0 THEN SubSeq(ls, last + 1, Len(ls)) ELSE ls

\* if last_test_start >= 0: lines = lines[last_test_start:]
\* content = '\n'.join(lines)
SliceLastRun ==
  /\ pc = "find_start"
  /\ i > Len(lines)
  /\ lines' = LastRun(lines, last_test_start)
  /\ content' = Join(lines')
  /\ pc' = "checkpoints"
  /\ i' = 1
  /\ UNCHANGED <<store, last_test_start, checkpoints, passed, failed, partial,
                 timeline, test_starts, step_times, start_time, end_time, result>>

\* The loop position after the iteration at i: the next line, or the next scan.
Advance(next) ==
  IF i < Len(lines) THEN /\ i' = i + 1
                         /\ pc' = pc
  ELSE /\ i' = 1
       /\ pc' = next

\* Mutant of CheckpointLine: the record is appended before the status is known
\* to be one of the three.
CheckpointLineEager ==
  /\ pc = "checkpoints"
  /\ LET line == lines[i]
         status == IF IsCandidate(line) THEN Classify(line) ELSE "none"
         name_match == NameMatch(line)
     IN /\ passed' = IF status = "passed" THEN passed + 1 ELSE passed
        /\ failed' = IF status = "failed" THEN failed + 1 ELSE failed
        /\ partial' = IF status = "partial" THEN partial + 1 ELSE partial
        /\ checkpoints' =
             IF IsCandidate(line) /\ name_match.ok
             THEN Append(checkpoints,
                         [name |-> name_match.name, status |-> status, time |-> "0s"])
             ELSE checkpoints
  /\ Advance("timeline")
  /\ UNCHANGED <<store, content, lines, last_test_start, timeline, test_starts,
                 step_times, start_time, end_time, result>>

\* One iteration of the checkpoint scan.
CheckpointLine ==
  /\ pc = "checkpoints"
  /\ LET line == lines[i]
         status == IF IsCandidate(line) THEN Classify(line) ELSE "none"
         name_match == NameMatch(line)
     IN /\ passed' = IF status = "passed" THEN passed + 1 ELSE passed
        /\ failed' = IF status = "failed" THEN failed + 1 ELSE failed
        /\ partial' = IF status = "partial" THEN partial + 1 ELSE partial
        /\ checkpoints' =
             IF status # "none" /\ name_match.ok
             THEN Append(checkpoints,
                         [name |-> name_match.name, status |-> status, time |-> "0s"])
             ELSE checkpoints
  /\ Advance("timeline")
  /\ UNCHANGED <<store, content, lines, last_test_start, timeline, test_starts,
                 step_times, start_time, end_time, result>>

StatusOf(word) == IF word = "passed" THEN "passed" ELSE "failed"

\* The TEST START part of an iteration of the timeline scan: the table after
\* it, or ValueError.
StartStep(line, starts) ==
  LET m == StartMatch(line)
  IN IF ~m.ok THEN [ok |-> TRUE, starts |-> starts]
     ELSE IF Strptime(m.ts).ok
          THEN [ok |-> TRUE, starts |-> Put(starts, m.name, Strptime(m.ts).secs)]
          ELSE [ok |-> FALSE, starts |-> starts]

\* The `if end_match: ... elif not end_match: ...` part: the events the line
\* appends, or ValueError.
EndStep(line, starts) ==
  LET m == EndMatch(line)
      sm == EndSimpleMatch(line)
  IN IF m.ok
     THEN IF Float(m.secs).ok
          THEN [ok |-> TRUE,
                events |-> << [step |-> m.name, status |-> StatusOf(m.word),
                               time |-> Format2(Float(m.secs).hundredths),
                               timestamp |-> ClockOf(m.ts)] >>]
          ELSE [ok |-> FALSE, events |-> <<>>]
     ELSE IF sm.ok /\ ~In("completed successfully in", line)
          THEN IF sm.name \in DOMAIN starts
               THEN IF Strptime(sm.ts).ok
                    THEN [ok |-> TRUE,
                          events |-> << [step |-> sm.name, status |-> StatusOf(sm.word),
                                         time |-> Format1(Strptime(sm.ts).secs - starts[sm.name]),
                                         timestamp |-> ClockOf(sm.ts)] >>]
                    ELSE [ok |-> FALSE, events |-> <<>>]
               ELSE [ok |-> TRUE,
                     events |-> << [step |-> sm.name, status |-> StatusOf(sm.word),
                                    time |-> "N/A", timestamp |-> ClockOf(sm.ts)] >>]
          ELSE [ok |-> TRUE, events |-> <<>>]

\* The `Step X:` part: the table after it, or ValueError.
StepStep(line, steps) ==
  LET m == StepMatch(line)
  IN IF ~m.ok THEN [ok |-> TRUE, steps |-> steps]
     ELSE IF Strptime(m.ts).ok
          THEN [ok |-> TRUE,
                steps |-> Put(steps, m.num,
                              [timestamp |-> Strptime(m.ts).secs, name |-> Strip(m.name)])]
          ELSE [ok |-> FALSE, steps |-> steps]

\* One iteration of the timeline scan; an exception leaves parse_log_file.
TimelineLine ==
  /\ pc = "timeline"
  /\ LET line == lines[i]
         s1 == StartStep(line, test_starts)
         s2 == EndStep(line, s1.starts)
         s3 == StepStep(line, step_times)
     IN IF s1.ok /\ s2.ok /\ s3.ok
        THEN /\ test_starts' = s1.starts
             /\ timeline' = timeline \o s2.events
             /\ step_times' = s3.steps
             /\ Advance("span")
        ELSE /\ pc' = "raised"
             /\ UNCHANGED <<i, test_starts, timeline, step_times>>
  /\ UNCHANGED <<store, content, lines, last_test_start, checkpoints, passed, failed,
                 partial, start_time, end_time, result>>

\* One iteration of the start/end time scan.
SpanLine ==
  /\ pc = "span"
  /\ LET time_match == TimeMatch(lines[i])
     IN IF time_match.ok
        THEN /\ start_time' = IF start_time = "" THEN time_match.ts ELSE start_time
             /\ end_time' = time_match.ts
        ELSE UNCHANGED <<start_time, end_time>>
  /\ Advance("totals")
  /\ UNCHANGED <<store, content, lines, last_test_start, checkpoints, passed, failed,
                 partial, timeline, test_starts, step_times, result>>

\* duration = '0s'; if start_time and end_time: try: ... except: duration = 'N/A'
Duration(st, en) ==
  IF st # "" /\ en # ""
  THEN IF Strptime(st).ok /\ Strptime(en).ok
       THEN FormatInt(Strptime(en).secs - Strptime(st).secs)
       ELSE "N/A"
  ELSE "0s"

\* Mutant of TotalTests: the checkpoint records are counted, not the counters.
TotalTestsOfRecords(p, f, q, cps) ==
  IF cps # <<>> THEN Len(cps) ELSE Len(DefaultCheckpoints)

\* total_tests = passed + failed + partial, or the fallback when that is 0
TotalTests(p, f, q, cps) ==
  IF p + f + q = 0 THEN (IF cps # <<>> THEN Len(cps) ELSE Len(DefaultCheckpoints))
  ELSE p + f + q

\* Mutant of OrDefault: the recognized sequence is returned as it is.
AsRecognized(xs, default) == xs

\* `xs if xs else [ ...default... ]`
OrDefault(xs, default) == IF xs # <<>> THEN xs ELSE default

\* The record parse_log_file returns.
Summary(p, f, q, cps, tl, st, en, logs) ==
  [kind |-> "RunSummary",
   totalTests |-> TotalTests(p, f, q, cps),
   passed |-> p,
   failed |-> f,
   partial |-> q,
   duration |-> Duration(st, en),
   successRate |-> SuccessRate(p, TotalTests(p, f, q, cps)),
   checkpoints |-> OrDefault(cps, DefaultCheckpoints),
   timeline |-> OrDefault(tl, DefaultTimeline),
   logs |-> logs]

\* Calculate duration and totals; return the record.
Summarize ==
  /\ pc = "totals"
  /\ result' = Summary(passed, failed, partial, checkpoints, timeline,
                       start_time, end_time, content)
  /\ pc' = "done"
  /\ UNCHANGED <<store, content, lines, last_test_start, i, checkpoints, passed,
                 failed, partial, timeline, test_starts, step_times, start_time,
                 end_time>>

Next ==
  \/ GetLogContent
  \/ FindLastStart
  \/ SliceLastRun
  \/ CheckpointLine
  \/ TimelineLine
  \/ SpanLine
  \/ Summarize

Spec == Init /\ [][Next]_vars

SpecTimeline == InitTimeline /\ [][Next]_vars

SpecBulk == InitBulk /\ [][Next]_vars

\* ------------------------------------------------------------------------
\* Properties
\* ------------------------------------------------------------------------
Max(S) == CHOOSE x \in S : \A y \in S : x >= y

\* The lines of the fetched text.
Original == Split(store.text)

\* The positions of the lines holding STARTING, TEST and SUITE in any case.
MarkersOf(ls) ==
  {k \in 1..Len(ls) :
     \A w \in {"STARTING", "TEST", "SUITE"} :
       \E n \in 1..Len(ls[k]) : w \in KWU(ls[k][n])}

Markers == MarkersOf(Original)

\* The lines from the last marker on; the whole text when there is none.
RunOf(ls) ==
  LET ms == MarkersOf(ls)
  IN IF ms = {} THEN ls ELSE SubSeq(ls, Max(ms), Len(ls))

IsolatedRun == RunOf(Original)

Returned == result.kind = "RunSummary"

Counted == passed + failed + partial

\* C1: once the run is isolated, `lines` is exactly the fetched lines from the
\* LAST suite marker to the end (the whole text, unchanged, when no line is a
\* marker); the scans that follow and the returned 'logs' see those lines only.
C1_RunIsolation ==
  store.found /\ pc \notin {"request", "find_start"} =>
    LET run == IsolatedRun
    IN /\ lines = run
       /\ content = Join(run)
       /\ Markers = {} => content = store.text
       /\ Returned => result.logs = Join(run)

\* C1 witness: a returned summary of a text with two markers, cut at the last.
C1_Witness ==
  /\ Returned
  /\ Cardinality(Markers) >= 2
  /\ Len(lines) = Len(Original) - Max(Markers) + 1
  /\ Len(lines) < Len(Original)

\* C2: given any fetched text parse_log_file returns a RunSummary and never
\* raises: no scan is left by an exception.
C2_NeverRaises == store.found => pc # "raised"

\* C3: in every returned RunSummary passed, failed and partial are >= 0 and sum
\* to totalTests whenever a line was counted; totalTests differs from the sum
\* only when the sum is 0, and is then len(checkpoints) if non-empty, else 4.
C3_Totals ==
  Returned =>
    LET sum == result.passed + result.failed + result.partial
    IN /\ result.passed = passed /\ result.failed = failed /\ result.partial = partial
       /\ result.passed >= 0 /\ result.failed >= 0 /\ result.partial >= 0
       /\ sum > 0 => result.totalTests = sum
       /\ result.totalTests # sum =>
            /\ sum = 0
            /\ result.totalTests = IF checkpoints # <<>> THEN Len(checkpoints) ELSE 4

\* C3 witness: a summary with one passed, one failed and one partial line.
C3_Witness ==
  /\ Returned
  /\ result.passed = 1 /\ result.failed = 1 /\ result.partial = 1
  /\ result.totalTests = 3

\* What the checkpoint rule of the specification makes of a line.
Has(kws, line) == \E n \in 1..Len(line) : KW(line[n]) \cap kws # {}

Expected(line) ==
  LET P == Has({"PASSED"}, line)
      F == Has({"FAILED"}, line)
      Q == Has({"PARTIALLY", "PARTIAL"}, line)
  IN IF ~Has({"TEST CHECKPOINT", "TEST PASSED", "TEST FAILED"}, line) THEN "none"
     ELSE IF P /\ ~Q THEN "passed"
     ELSE IF F THEN "failed"
     ELSE IF Q THEN "partial"
     ELSE "none"

\* A line containing "TEST FAILED: <name>" / "TEST CHECKPOINT: ..."
HasFailedResult(line) == \E n \in 1..(Len(line) - 1) : line[n] = CKFAILED

HasCheckpointTag(line) == \E n \in 1..Len(line) : line[n] = CKPT

Delta(st, line) == IF Expected(line) = st THEN 1 ELSE 0

\* What every iteration of the checkpoint scan does to the counters and the
\* list: the precedence (1)-(4), one counter at most, a record only for a
\* counted line.
ByPrecedence(line) ==
  /\ passed' = passed + Delta("passed", line)
  /\ failed' = failed + Delta("failed", line)
  /\ partial' = partial + Delta("partial", line)
  /\ Expected(line) = "none" => checkpoints' = checkpoints
  /\ checkpoints' # checkpoints =>
       /\ Len(checkpoints') = Len(checkpoints) + 1
       /\ SubSeq(checkpoints', 1, Len(checkpoints)) = checkpoints
       /\ checkpoints'[Len(checkpoints')].status = Expected(line)
  /\ HasCheckpointTag(line) /\ passed' = passed + 1 => Has({"PASSED"}, line)

\* C4 as amended: the precedence holds for every line, and a line containing
\* "TEST FAILED: <name>" counts toward failed, not passed, unless it also
\* contains PASSED and neither PARTIALLY nor PARTIAL: rule (1) then counts it
\* as passed.
C4_Classification ==
  [][pc = "checkpoints" =>
       LET line == lines[i]
           first == Has({"PASSED"}, line) /\ ~Has({"PARTIALLY", "PARTIAL"}, line)
       IN /\ ByPrecedence(line)
          /\ HasFailedResult(line) /\ ~first => failed' = failed + 1 /\ passed' = passed
          /\ HasFailedResult(line) /\ first => passed' = passed + 1 /\ failed' = failed]_vars

\* C4 witness: the scan has counted a "TEST FAILED: <name>" line as passed.
C4_Witness ==
  /\ pc = "timeline"
  /\ i = 1
  /\ \E k \in 1..Len(lines) : HasFailedResult(lines[k]) /\ Has({"PASSED"}, lines[k])
  /\ passed = 1
  /\ failed = 0

\* C4 as stated: the precedence holds for every line and, consequently, every
\* line containing "TEST FAILED: <name>" counts toward failed, not passed.
C4_Original ==
  [][pc = "checkpoints" =>
       LET line == lines[i]
       IN /\ ByPrecedence(line)
          /\ HasFailedResult(line) => failed' = failed + 1 /\ passed' = passed]_vars

\* No checkpoint candidate and no timeline end marker in the isolated run.
NoEventsIn(run) ==
  \A k \in 1..Len(run) :
    /\ ~Has({"TEST CHECKPOINT", "TEST PASSED", "TEST FAILED"}, run[k])
    /\ \A n \in 1..Len(run[k]) : Kind(run[k][n]) \notin {"passed", "failed"}

NoEvents == NoEventsIn(IsolatedRun)

IsDefaultSummary ==
  /\ result.passed = 0 /\ result.failed = 0 /\ result.partial = 0
  /\ result.totalTests = 4
  /\ result.successRate = 0
  /\ result.checkpoints = DefaultCheckpoints
  /\ result.timeline = DefaultTimeline

\* C5: the empty text, and any text whose isolated run has no checkpoint
\* candidate and no timeline end marker, returns zero counts, totalTests 4,
\* successRate 0 and both default lists; in every returned record
\* 'checkpoints' and 'timeline' are non-empty, each the default exactly when
\* its own recognized sequence is empty.
C5_Defaults ==
  Returned =>
    /\ store.text = <<>> => IsDefaultSummary
    /\ NoEvents => IsDefaultSummary
    /\ result.checkpoints # <<>> /\ result.timeline # <<>>
    /\ result.checkpoints = DefaultCheckpoints <=> checkpoints = <<>>
    /\ result.timeline = DefaultTimeline <=> timeline = <<>>
    /\ checkpoints # <<>> => result.checkpoints = checkpoints
    /\ timeline # <<>> => result.timeline = timeline

\* C5 witness: a returned summary of a non-empty text without events.
C5_Witness ==
  /\ Returned
  /\ NoEvents
  /\ Len(lines) >= 2
  /\ start_time # ""
  /\ IsDefaultSummary

\* The end-without-duration shape at position n of a line:
\* <timestamp>,<frac> [INFO] [TEST PASSED|FAILED] <name>
SimpleEndAt(line, n) ==
  /\ n + 4 <= Len(line)
  /\ Kind(line[n]) = "ts" /\ Kind(line[n + 1]) = "frac" /\ line[n + 2] = INFO
  /\ line[n + 3] \in {BPASSED, BFAILED}

\* The start-marker shape at position n of a line.
StartAt(line, n) ==
  /\ n + 4 <= Len(line)
  /\ Kind(line[n]) = "ts" /\ Kind(line[n + 1]) = "frac" /\ line[n + 2] = INFO
  /\ line[n + 3] = BSTART

IsSimpleEnd(line) == \E n \in 1..Len(line) : SimpleEndAt(line, n)

IsStart(line) == \E n \in 1..Len(line) : StartAt(line, n)

EndPos(line) == Min({n \in 1..Len(line) : SimpleEndAt(line, n)})

StartPos(line) == Min({n \in 1..Len(line) : StartAt(line, n)})

NameFrom(line, n) == Text(SubSeq(line, n + 4, Len(line)))

\* The earlier lines of the run that are start markers of the name.
StartsBefore(k, name) ==
  {j \in 1..(k - 1) : IsStart(lines[j]) /\ NameFrom(lines[j], StartPos(lines[j])) = name}

\* The event C6 says line k of the run emits.
SimpleEvent(k) ==
  LET line == lines[k]
      n == EndPos(line)
      name == NameFrom(line, n)
      S == StartsBefore(k, name)
      begun == lines[Max(S)][StartPos(lines[Max(S)])]
  IN [step |-> name,
      status |-> IF line[n + 3] = BPASSED THEN "passed" ELSE "failed",
      time |-> IF S = {} THEN "N/A"
               ELSE Format1(Strptime(line[n]).secs - Strptime(begun).secs),
      timestamp |-> ClockOf(line[n])]

\* C6: every line of the isolated run of the end-without-duration shape that
\* does not contain "completed successfully in" emits one TimelineEvent with
\* its name, status and HH:MM:SS; its time is end - start to one decimal if a
\* start marker of the same name occurred earlier in the run (the most recent
\* one is used), and "N/A" otherwise.
C6_SimpleEndEvent ==
  [][pc = "timeline" /\ IsSimpleEnd(lines[i])
       /\ ~Has({"completed successfully in"}, lines[i])
     => timeline' = Append(timeline, SimpleEvent(i))]_vars

\* The event C7 says an end-with-duration line emits.
DurationEvent(line, n, j) ==
  [step |-> Text(SubSeq(line, n + 4, j - 1)),
   status |-> IF line[n + 3] = BPASSED THEN "passed" ELSE "failed",
   time |-> Format2(100 * Fields(line[j + 1])[1] + Fields(line[j + 1])[2]),
   timestamp |-> ClockOf(line[n])]

\* The end-with-duration shape: name from n + 4 to j - 1, the seconds at j + 1.
DurationEndAt(line, n, j) ==
  /\ SimpleEndAt(line, n)
  /\ j >= n + 5 /\ j < Len(line)
  /\ line[j] = CSI
  /\ Kind(line[j + 1]) = "secs"

\* C7: the three timeline forms exclude each other on every line: a start
\* marker line only records its name and emits no event; an end-with-duration
\* line emits exactly one event, with the explicit duration to 2 decimals; no
\* line appends more than one event, and events keep the order of the lines.
\* Stated of the iterations that complete: one left by an exception is C2's.
C7_ExclusiveForms ==
  [][pc = "timeline" /\ pc' # "raised" =>
       LET line == lines[i]
       IN /\ IsStart(line) =>
               /\ timeline' = timeline
               /\ NameFrom(line, StartPos(line)) \in DOMAIN test_starts'
          /\ \A n, j \in 1..Len(line) :
               DurationEndAt(line, n, j)
                 /\ (\A m, h \in 1..Len(line) :
                       DurationEndAt(line, m, h) => n < m \/ (n = m /\ j <= h))
               => timeline' = Append(timeline, DurationEvent(line, n, j))
          /\ Len(timeline') <= Len(timeline) + 1
          /\ SubSeq(timeline', 1, Len(timeline)) = timeline]_vars

\* C8: successRate of every returned RunSummary is floor(passed * 100 /
\* totalTests), an integer in 0..100; 75 for 3 of 4 and 0 when passed is 0.
C8_SuccessRateFloor ==
  Returned =>
    /\ result.successRate = (result.passed * 100) \div result.totalTests
    /\ result.successRate \in 0..100
    /\ result.passed = 3 /\ result.totalTests = 4 => result.successRate = 75
    /\ result.passed = 0 => result.successRate = 0

\* A line that begins with a YYYY-MM-DD HH:MM:SS timestamp.
LeadsWithTimestamp(line) == Len(line) >= 1 /\ Kind(line[1]) = "ts"

TimedLinesOf(run) == {k \in 1..Len(run) : LeadsWithTimestamp(run[k])}

TimedLines == TimedLinesOf(IsolatedRun)

FirstStampOf(run) == run[Min(TimedLinesOf(run))][1]

LastStampOf(run) == run[Max(TimedLinesOf(run))][1]

FirstStamp == FirstStampOf(IsolatedRun)

LastStamp == LastStampOf(IsolatedRun)

\* The duration the first and the last leading timestamp of a run give.
SpanOf(run) ==
  IF TimedLinesOf(run) = {} THEN "0s"
  ELSE LET st == Strptime(FirstStampOf(run))
           en == Strptime(LastStampOf(run))
       IN IF st.ok /\ en.ok THEN FormatInt(en.secs - st.secs) ELSE "N/A"

\* C9 as amended: 'duration' is "<end - start>s" between the timestamps of the
\* first and the last line of the isolated run that begin with one (by
\* position), "0s" when no line does (and when exactly one does and it is a
\* valid date/time), and "N/A" when the first or the last such timestamp is not
\* a valid date/time; lines before the last suite marker and timestamps in the
\* middle of a line do not count.
C9_Duration ==
  Returned => result.duration = SpanOf(IsolatedRun)

\* C9 witness: a run cut at its marker, several timestamped lines, a duration.
C9_Witness ==
  /\ Returned
  /\ Len(lines) < Len(Original)
  /\ Cardinality(TimedLines) >= 2
  /\ result.duration = "6s"

\* C9 as stated: 'duration' is always "<end - start in whole seconds>s", and
\* "0s" when no line, or exactly one line, begins with a timestamp.
C9_Original ==
  Returned =>
    /\ result.duration # "N/A"
    /\ Cardinality(TimedLines) <= 1 => result.duration = "0s"
    /\ Cardinality(TimedLines) >= 2 /\ Strptime(FirstStamp).ok /\ Strptime(LastStamp).ok
         => result.duration = FormatInt(Strptime(LastStamp).secs - Strptime(FirstStamp).secs)

StatusCount(st) ==
  Cardinality({k \in 1..Len(checkpoints) : checkpoints[k].status = st})

\* C10: a Checkpoint record exists only for a counted line: the records are
\* at most passed + failed + partial, and per status at most the counter; so
\* when nothing is counted the list is empty and totalTests is exactly 4, and
\* totalTests >= 1 in every returned RunSummary.
C10_RecordsWithinCounts ==
  /\ Len(checkpoints) <= Counted
  /\ StatusCount("passed") <= passed
  /\ StatusCount("failed") <= failed
  /\ StatusCount("partial") <= partial
  /\ \A k \in 1..Len(checkpoints) : checkpoints[k].status \in {"passed", "failed", "partial"}
  /\ Counted = 0 => checkpoints = <<>>
  /\ Returned => /\ result.totalTests >= 1
                 /\ Counted = 0 => result.totalTests = 4

\* C10 witness: a returned summary whose run holds a candidate line that was
\* discarded and a counted line without a name.
C10_Witness ==
  /\ Returned
  /\ \E k \in 1..Len(lines) : HasCheckpointTag(lines[k]) /\ Expected(lines[k]) = "none"
  /\ Len(checkpoints) < Counted
  /\ checkpoints # <<>>

====
